---- MODULE Spec2Model ----
(***************************************************************************)
(* A model of the Go core of gnugo-rs: engine/board.rs (Board, find_group, *)
(* place_stone, count_liberties_for_positions, capture_group,              *)
(* stones_on_board) and engine/game.rs (Game, make_move, undo_move, pass,  *)
(* resign, determine_winner), with engine/rules.rs (is_legal_move),        *)
(* engine/move_generation.rs (is_valid_move) and the text front end of     *)
(* gtp/mod.rs (play, is_legal, list_stones, showboard, parse_gtp_move,     *)
(* format_move).                                                           *)
(*                                                                         *)
(* Coordinates are 0-based as in the code; grid[y][x] is the cell (x, y).  *)
(* Option<T> is a sequence: <<>> for None, <<v>> for Some(v).              *)
(* Result<(), E> is a string: "Ok" for Ok(()), the message for Err(msg).   *)
(***************************************************************************)
EXTENDS Integers, Sequences, FiniteSets, TLC

\* The board sizes a game is created with (Game::new(size), Board::new(size)).
Sizes == {1, 2, 3}

\* Longest undo history explored by Spec: a make_move call that would leave
\* more snapshots than this is not made.
MaxHistory == 3

\* SpecBoard stops calling place_stone once this many stones were captured.
MaxCaptured == 2

\* SpecBoard stops calling place_stone once this many stones stand on the board.
MaxStones == 5

\* SpecRules stops calling place_stone once this many stones stand on the board.
MaxRulesStones == 3

\* The longest history a game played through the text front end has.
MaxGtpHistory == 2

None == <<>>

Some(v) == <<v>>

Empty == "Empty"

Black == "Black"

White == "White"

Stone == {Empty, Black, White}

Ok == "Ok"

ErrOutOfBounds == "Position out of bounds"

ErrOccupied == "Position already occupied"

ErrKo == "Ko threat violation"

ErrEmptyStone == "Cannot place empty stone"

ErrSuicide == "Suicide move not allowed"

ErrGameOver == "Game is already over"

InProgress == "InProgress"

Ended == "Ended"

Resigned == "Resigned"

VARIABLES
    board,            \* Game.board: [size, grid, captured, ko_point]
    current_player,   \* Game.current_player: TRUE = black, FALSE = white
    history,          \* Game.history: sequence of GameState snapshots
    captured_stones,  \* Game.captured_stones: [black, white], indices 0 and 1
    pass_count,       \* Game.pass_count
    status,           \* Game.status
    winner,           \* Game.winner: Option<Stone>
    last,             \* the last call made and what it returned
    passed            \* whether a pass was accepted since the game was created

vars == <<board, current_player, history, captured_stones, pass_count, status, winner,
          last, passed>>

-----------------------------------------------------------------------------
(* engine/board.rs *)

\* Board::new with a ko point set on the new board.
NewBoardWithKo(size) ==
    [ size     |-> size,
      grid     |-> [y \in 0..(size - 1) |-> [x \in 0..(size - 1) |-> Empty]],
      captured |-> [i \in 0..1 |-> 0],
      ko_point |-> Some(<<0, 0>>) ]

\* Board::new
NewBoard(size) ==
    [ size     |-> size,
      grid     |-> [y \in 0..(size - 1) |-> [x \in 0..(size - 1) |-> Empty]],
      captured |-> [i \in 0..1 |-> 0],
      ko_point |-> None ]

\* The outcome of indexing a Vec out of its range: the call panics.
Panic == "panic"

\* Board::get_stone: self.grid[y][x] with no test of x and y against size;
\* the index of either Vec panics when it is out of range.
get_stone(b, x, y) ==
    IF y \in DOMAIN b.grid /\ x \in DOMAIN b.grid[y] THEN b.grid[y][x] ELSE Panic

\* Board::get_captured
get_captured(b) == b.captured

\* Board::set_ko_point
set_ko_point(b, x, y) == [b EXCEPT !.ko_point = Some(<<x, y>>)]

\* Board::clear_ko_point
clear_ko_point(b) == [b EXCEPT !.ko_point = None]

\* The four offsets and a diagonal one.
neighborsAndDiagonal == << <<0, -1>>, <<0, 1>>, <<-1, 0>>, <<1, 0>>, <<1, 1>> >>

\* The four (dx, dy) offsets, in the order every loop of board.rs visits them.
neighbors == << <<0, -1>>, <<0, 1>>, <<-1, 0>>, <<1, 0>> >>

\* The bounds test made on the isize pair (nx, ny) before it indexes the grid.
InBounds(b, nx, ny) == nx >= 0 /\ nx < b.size /\ ny >= 0 /\ ny < b.size

\* CountNeighbors without the test of the checked set.
RECURSIVE CountNeighborsNoChecked(_, _, _, _, _)
CountNeighborsNoChecked(b, x, y, i, acc) ==
    IF i > Len(neighbors) THEN acc
    ELSE LET nx == x + neighbors[i][1]
             ny == y + neighbors[i][2]
         IN  IF InBounds(b, nx, ny) /\ b.grid[ny][nx] = Empty
             THEN CountNeighborsNoChecked(b, x, y, i + 1,
                     [liberties |-> acc.liberties + 1,
                      checked   |-> acc.checked \cup {<<nx, ny>>}])
             ELSE CountNeighborsNoChecked(b, x, y, i + 1, acc)

\* The inner for-loop of count_liberties_for_positions, from direction i on.
\* acc = [liberties, checked].
RECURSIVE CountNeighbors(_, _, _, _, _)
CountNeighbors(b, x, y, i, acc) ==
    IF i > Len(neighbors) THEN acc
    ELSE LET nx == x + neighbors[i][1]
             ny == y + neighbors[i][2]
         IN  IF InBounds(b, nx, ny) /\ <<nx, ny>> \notin acc.checked
                                    /\ b.grid[ny][nx] = Empty
             THEN CountNeighbors(b, x, y, i + 1,
                     [liberties |-> acc.liberties + 1,
                      checked   |-> acc.checked \cup {<<nx, ny>>}])
             ELSE CountNeighbors(b, x, y, i + 1, acc)

\* The outer for-loop of count_liberties_for_positions, from position k on.
RECURSIVE CountPositions(_, _, _, _)
CountPositions(b, positions, k, acc) ==
    IF k > Len(positions) THEN acc
    ELSE CountPositions(b, positions, k + 1,
            CountNeighbors(b, positions[k][1], positions[k][2], 1, acc))

\* Board::count_liberties_for_positions
count_liberties_for_positions(b, positions) ==
    CountPositions(b, positions, 1, [liberties |-> 0, checked |-> {}]).liberties

\* The for-loop over the neighbours of (cx, cy) in find_group, from direction
\* i on.  acc = [visited, queue].
RECURSIVE PushNeighbors(_, _, _, _, _, _)
PushNeighbors(b, color, cx, cy, i, acc) ==
    IF i > Len(neighbors) THEN acc
    ELSE LET nx == cx + neighbors[i][1]
             ny == cy + neighbors[i][2]
         IN  IF InBounds(b, nx, ny) /\ <<nx, ny>> \notin acc.visited
                                    /\ b.grid[ny][nx] = color
             THEN PushNeighbors(b, color, cx, cy, i + 1,
                     [visited |-> acc.visited \cup {<<nx, ny>>},
                      queue   |-> Append(acc.queue, <<nx, ny>>)])
             ELSE PushNeighbors(b, color, cx, cy, i + 1, acc)

\* The while-let loop of find_group: queue.pop() takes the last element.
\* acc = [visited, queue].
RECURSIVE FloodFill(_, _, _, _)
FloodFill(b, color, positions, acc) ==
    IF acc.queue = <<>> THEN positions
    ELSE LET c    == acc.queue[Len(acc.queue)]
             rest == SubSeq(acc.queue, 1, Len(acc.queue) - 1)
         IN  FloodFill(b, color, Append(positions, c),
                       PushNeighbors(b, color, c[1], c[2], 1,
                                     [visited |-> acc.visited, queue |-> rest]))

\* The StoneGroup find_group returns for the positions its loop collected.
StoneGroup(b, color, positions) ==
    [ color     |-> color,
      positions |-> positions,
      liberties |-> count_liberties_for_positions(b, positions) ]

\* Board::find_group
find_group(b, x, y) ==
    IF x >= b.size \/ y >= b.size THEN None
    ELSE IF b.grid[y][x] = Empty THEN None
    ELSE Some(StoneGroup(b, b.grid[y][x],
                         FloodFill(b, b.grid[y][x], <<>>,
                                   [visited |-> {<<x, y>>}, queue |-> << <<x, y>> >>])))

\* The for-loop of capture_group that empties the group's cells, from k on.
RECURSIVE ClearPositions(_, _, _)
ClearPositions(grid, positions, k) ==
    IF k > Len(positions) THEN grid
    ELSE ClearPositions([grid EXCEPT ![positions[k][2]][positions[k][1]] = Empty],
                        positions, k + 1)

\* The index of capture_group's match on the captured group's colour.
CapturedIndex(color) == IF color = Black THEN 0 ELSE 1

\* capture_group crediting one stone for a group of any size.
capture_group_CountOne(b, group) ==
    LET count == 1
        grid  == ClearPositions(b.grid, group.positions, 1)
    IN  IF group.color = Empty
        THEN [b EXCEPT !.grid = grid]
        ELSE [b EXCEPT !.grid = grid,
                       !.captured[CapturedIndex(group.color)] = @ + count]

\* Board::capture_group
capture_group(b, group) ==
    LET count == Len(group.positions)
        grid  == ClearPositions(b.grid, group.positions, 1)
    IN  IF group.color = Empty
        THEN [b EXCEPT !.grid = grid]
        ELSE [b EXCEPT !.grid = grid,
                       !.captured[CapturedIndex(group.color)] = @ + count]

\* The flag place_stone raises when a captured group is a single stone.
IsSingleStone(group) == Len(group.positions) = 1

\* CaptureFound that captures nothing.
CaptureFoundNever(acc, found) == acc

\* CaptureFound capturing a group that still has one liberty.
CaptureFoundAtari(acc, found) ==
    IF found # None /\ found[1].liberties <= 1
    THEN [ board                 |-> capture_group(acc.board, found[1]),
           captured_any          |-> TRUE,
           captured_single_stone |->
               (acc.captured_single_stone \/ IsSingleStone(found[1])),
           capture_position      |->
               IF IsSingleStone(found[1]) THEN found[1].positions[1]
                                          ELSE acc.capture_position ]
    ELSE acc

\* The body of the capture loop for an opponent neighbour whose group is
\* found: a group without liberties is captured and the flags are raised.
CaptureFound(acc, found) ==
    IF found # None /\ found[1].liberties = 0
    THEN [ board                 |-> capture_group(acc.board, found[1]),
           captured_any          |-> TRUE,
           captured_single_stone |->
               (acc.captured_single_stone \/ IsSingleStone(found[1])),
           capture_position      |->
               IF IsSingleStone(found[1]) THEN found[1].positions[1]
                                          ELSE acc.capture_position ]
    ELSE acc

\* The capture loop of place_stone over the four directions, from direction i
\* on.  acc = [board, captured_any, captured_single_stone, capture_position].
RECURSIVE CaptureLoop(_, _, _, _, _)
CaptureLoop(x, y, opponent, i, acc) ==
    IF i > Len(neighbors) THEN acc
    ELSE LET nx == x + neighbors[i][1]
             ny == y + neighbors[i][2]
         IN  IF InBounds(acc.board, nx, ny) /\ acc.board.grid[ny][nx] = opponent
             THEN CaptureLoop(x, y, opponent, i + 1,
                              CaptureFound(acc, find_group(acc.board, nx, ny)))
             ELSE CaptureLoop(x, y, opponent, i + 1, acc)

\* UpdateKo without its else branch: an old ko point is kept when no single
\* stone was captured.
UpdateKoKeep(acc) ==
    IF acc.captured_single_stone
    THEN set_ko_point(acc.board, acc.capture_position[1], acc.capture_position[2])
    ELSE acc.board

\* The ko update of place_stone after the capture loop.
UpdateKo(acc) ==
    IF acc.captured_single_stone
    THEN set_ko_point(acc.board, acc.capture_position[1], acc.capture_position[2])
    ELSE clear_ko_point(acc.board)

\* The test place_stone makes on its own group: found, with no liberties.
IsSuicide(own) == own # None /\ own[1].liberties = 0

\* SuicideCheck without the removal of the placed stone.
SuicideCheckNoRevert(b, x, y, captured_any) ==
    IF ~captured_any /\ IsSuicide(find_group(b, x, y))
    THEN [board |-> b, result |-> ErrSuicide]
    ELSE [board |-> b, result |-> Ok]

\* The suicide check that ends place_stone; b is the board after the ko update.
SuicideCheck(b, x, y, captured_any) ==
    IF ~captured_any /\ IsSuicide(find_group(b, x, y))
    THEN [board |-> [b EXCEPT !.grid[y][x] = Empty], result |-> ErrSuicide]
    ELSE [board |-> b, result |-> Ok]

\* What place_stone does once the capture loop has left acc.
AfterCaptures(acc, x, y) == SuicideCheck(UpdateKo(acc), x, y, acc.captured_any)

\* place_stone with the ko test made before the occupied test.
place_stone_KoFirst(b, x, y, stone) ==
    IF x >= b.size \/ y >= b.size THEN [board |-> b, result |-> ErrOutOfBounds]
    ELSE IF b.ko_point # None /\ b.ko_point[1] = <<x, y>>
         THEN [board |-> b, result |-> ErrKo]
    ELSE IF b.grid[y][x] # Empty THEN [board |-> b, result |-> ErrOccupied]
    ELSE LET placed == [b EXCEPT !.grid[y][x] = stone]
         IN  IF stone = Empty THEN [board |-> placed, result |-> ErrEmptyStone]
             ELSE AfterCaptures(
                      CaptureLoop(x, y, IF stone = Black THEN White ELSE Black, 1,
                                  [ board                 |-> placed,
                                    captured_any          |-> FALSE,
                                    captured_single_stone |-> FALSE,
                                    capture_position      |-> <<0, 0>> ]),
                      x, y)

\* Board::place_stone: the board it leaves and the result it returns.
place_stone(b, x, y, stone) ==
    IF x >= b.size \/ y >= b.size THEN [board |-> b, result |-> ErrOutOfBounds]
    ELSE IF b.grid[y][x] # Empty THEN [board |-> b, result |-> ErrOccupied]
    ELSE IF b.ko_point # None /\ b.ko_point[1] = <<x, y>>
         THEN [board |-> b, result |-> ErrKo]
    ELSE LET placed == [b EXCEPT !.grid[y][x] = stone]
         IN  IF stone = Empty THEN [board |-> placed, result |-> ErrEmptyStone]
             ELSE AfterCaptures(
                      CaptureLoop(x, y, IF stone = Black THEN White ELSE Black, 1,
                                  [ board                 |-> placed,
                                    captured_any          |-> FALSE,
                                    captured_single_stone |-> FALSE,
                                    capture_position      |-> <<0, 0>> ]),
                      x, y)

\* Board::stones_on_board: the double loop that counts the cells of a colour.
RECURSIVE CountRow(_, _, _, _)
CountRow(row, color, x, size) ==
    IF x >= size THEN 0
    ELSE (IF row[x] = color THEN 1 ELSE 0) + CountRow(row, color, x + 1, size)

RECURSIVE CountRows(_, _, _)
CountRows(b, color, y) ==
    IF y >= b.size THEN 0
    ELSE CountRow(b.grid[y], color, 0, b.size) + CountRows(b, color, y + 1)

stones_on_board(b, color) == CountRows(b, color, 0)

-----------------------------------------------------------------------------
(* engine/rules.rs *)

KoRuleNone == "KoRule::None"

KoRuleSimple == "KoRule::Simple"

KoRuleSuperko == "KoRule::Superko"

KoRule == {KoRuleNone, KoRuleSimple, KoRuleSuperko}

\* The values of struct GameRules.
GameRules == [allow_suicide : BOOLEAN, ko_rule : KoRule]

\* BoardExt::get_ko_point
get_ko_point(b) == b.ko_point

\* What is_legal_move returns when place_stone on the test board returned
\* placed: on an error e the suicide error under !allow_suicide and e
\* otherwise, and Ok on Ok.
TestBoardResult(rules, placed) ==
    IF placed # Ok
    THEN IF ~rules.allow_suicide /\ placed = ErrSuicide THEN ErrSuicide ELSE placed
    ELSE Ok

\* GameRules::is_legal_move: the Result it returns; the board is not
\* changed, place_stone is tried on a clone.
is_legal_move(rules, b, x, y, stone) ==
    IF x >= b.size \/ y >= b.size THEN ErrOutOfBounds
    ELSE IF get_stone(b, x, y) # Empty THEN ErrOccupied
    ELSE IF /\ rules.ko_rule # KoRuleNone
            /\ get_ko_point(b) # None
            /\ x = get_ko_point(b)[1][1]
            /\ y = get_ko_point(b)[1][2]
         THEN ErrKo
    ELSE TestBoardResult(rules, place_stone(b, x, y, stone).result)

-----------------------------------------------------------------------------
(* engine/move_generation.rs *)

\* The four tests of is_valid_move on the cells next to (row, col): the
\* stone of one of the neighbours that are on the board is one of stones.
SomeAdjacent(b, row, col, stones) ==
    \/ row > 0 /\ get_stone(b, row - 1, col) \in stones
    \/ row < b.size - 1 /\ get_stone(b, row + 1, col) \in stones
    \/ col > 0 /\ get_stone(b, row, col - 1) \in stones
    \/ col < b.size - 1 /\ get_stone(b, row, col + 1) \in stones

\* MoveGenerator::is_valid_move
is_valid_move(b, row, col, player) ==
    IF row >= b.size \/ col >= b.size THEN FALSE
    ELSE IF get_stone(b, row, col) # Empty THEN FALSE
    ELSE LET has_liberty == SomeAdjacent(b, row, col, {Empty, player})
             opponent    == IF player = Black THEN White
                            ELSE IF player = White THEN Black ELSE Empty
         IN  IF ~has_liberty
             THEN SomeAdjacent(b, row, col, {opponent})
             ELSE TRUE

-----------------------------------------------------------------------------
(* engine/game.rs *)

\* The Game value held by the variables.
Game ==
    [ board           |-> board,
      current_player  |-> current_player,
      history         |-> history,
      captured_stones |-> captured_stones,
      pass_count      |-> pass_count,
      status          |-> status,
      winner          |-> winner ]

\* Game::new
NewGame(size) ==
    [ board           |-> NewBoard(size),
      current_player  |-> TRUE,
      history         |-> <<>>,
      captured_stones |-> [i \in 0..1 |-> 0],
      pass_count      |-> 0,
      status          |-> InProgress,
      winner          |-> None ]

\* The GameState snapshot make_move pushes.
Snapshot(g) ==
    [ board           |-> g.board,
      current_player  |-> g.current_player,
      captured_stones |-> g.captured_stones ]

\* Game::current_player()
CurrentStone(g) == IF g.current_player THEN Black ELSE White

\* Game::captured
captured(g, color) ==
    IF color = Black THEN g.captured_stones[0]
    ELSE IF color = White THEN g.captured_stones[1]
    ELSE 0

\* update_captured_stones with the two counts exchanged.
update_captured_stones_Swapped(g) ==
    [g EXCEPT !.captured_stones = [i \in 0..1 |-> get_captured(g.board)[1 - i]]]

\* Game::update_captured_stones
update_captured_stones(g) ==
    [g EXCEPT !.captured_stones = [i \in 0..1 |-> get_captured(g.board)[i]]]

\* reset_pass_count that leaves the count.
reset_pass_count_Keep(g) == g

\* Game::reset_pass_count
reset_pass_count(g) == [g EXCEPT !.pass_count = 0]

\* MoveOutcome without the pop of the snapshot on the Err arm.
MoveOutcomeNoPop(pushed, placed) ==
    IF placed.result = Ok
    THEN [ game   |-> [reset_pass_count(update_captured_stones(
                          [pushed EXCEPT !.board = placed.board]))
                          EXCEPT !.current_player = ~pushed.current_player],
           result |-> Ok ]
    ELSE [ game   |-> [pushed EXCEPT !.board = placed.board],
           result |-> placed.result ]

\* The match of make_move on what place_stone returned; pushed is the game
\* with the snapshot pushed.
MoveOutcome(pushed, placed) ==
    IF placed.result = Ok
    THEN [ game   |-> [reset_pass_count(update_captured_stones(
                          [pushed EXCEPT !.board = placed.board]))
                          EXCEPT !.current_player = ~pushed.current_player],
           result |-> Ok ]
    ELSE [ game   |-> [pushed EXCEPT !.board = placed.board,
                                     !.history = SubSeq(pushed.history, 1,
                                                        Len(pushed.history) - 1)],
           result |-> placed.result ]

\* make_move that hands place_stone (col, row) for (row, col).
make_move_Swapped(g, row, col) ==
    IF g.status # InProgress THEN [game |-> g, result |-> ErrGameOver]
    ELSE MoveOutcome([g EXCEPT !.history = Append(g.history, Snapshot(g))],
                     place_stone(g.board, col, row, CurrentStone(g)))

\* make_move without the status test.
make_move_NoStatusCheck(g, row, col) ==
    MoveOutcome([g EXCEPT !.history = Append(g.history, Snapshot(g))],
                place_stone(g.board, row, col, CurrentStone(g)))

\* Game::make_move: the game it leaves and the result it returns.
make_move(g, row, col) ==
    IF g.status # InProgress THEN [game |-> g, result |-> ErrGameOver]
    ELSE MoveOutcome([g EXCEPT !.history = Append(g.history, Snapshot(g))],
                     place_stone(g.board, row, col, CurrentStone(g)))

\* undo_move that hands the turn over when the history is empty.
undo_move_EmptyFlips(g) ==
    IF g.history # <<>>
    THEN LET last_state == g.history[Len(g.history)]
         IN  [ game   |-> [g EXCEPT !.history = SubSeq(g.history, 1, Len(g.history) - 1),
                                    !.board = last_state.board,
                                    !.current_player = last_state.current_player,
                                    !.captured_stones = last_state.captured_stones],
               result |-> "Some" ]
    ELSE [game |-> [g EXCEPT !.current_player = ~g.current_player], result |-> "None"]

\* undo_move without the restore of current_player.
undo_move_KeepPlayer(g) ==
    IF g.history # <<>>
    THEN LET last_state == g.history[Len(g.history)]
         IN  [ game   |-> [g EXCEPT !.history = SubSeq(g.history, 1, Len(g.history) - 1),
                                    !.board = last_state.board,
                                    !.captured_stones = last_state.captured_stones],
               result |-> "Some" ]
    ELSE [game |-> g, result |-> "None"]

\* Game::undo_move: result "Some" for Some(()), "None" for None.
undo_move(g) ==
    IF g.history # <<>>
    THEN LET last_state == g.history[Len(g.history)]
         IN  [ game   |-> [g EXCEPT !.history = SubSeq(g.history, 1, Len(g.history) - 1),
                                    !.board = last_state.board,
                                    !.current_player = last_state.current_player,
                                    !.captured_stones = last_state.captured_stones],
               result |-> "Some" ]
    ELSE [game |-> g, result |-> "None"]

\* determine_winner with >= for >: Black wins on equal scores.
determine_winner_TieBlack(g) ==
    LET black_score == stones_on_board(g.board, Black) + g.captured_stones[0]
        white_score == stones_on_board(g.board, White) + g.captured_stones[1]
    IN  IF black_score >= white_score THEN [g EXCEPT !.winner = Some(Black)]
        ELSE IF white_score > black_score THEN [g EXCEPT !.winner = Some(White)]
        ELSE [g EXCEPT !.winner = None]

\* Game::determine_winner
determine_winner(g) ==
    LET black_score == stones_on_board(g.board, Black) + g.captured_stones[0]
        white_score == stones_on_board(g.board, White) + g.captured_stones[1]
    IN  IF black_score > white_score THEN [g EXCEPT !.winner = Some(Black)]
        ELSE IF white_score > black_score THEN [g EXCEPT !.winner = Some(White)]
        ELSE [g EXCEPT !.winner = None]

\* pass that ends the game at the third pass in a row.
pass_EndsAtThree(g) ==
    IF g.status # InProgress THEN [game |-> g, result |-> ErrGameOver]
    ELSE LET counted == [g EXCEPT !.pass_count = @ + 1]
             ended   == IF counted.pass_count >= 3
                        THEN determine_winner([counted EXCEPT !.status = Ended])
                        ELSE counted
         IN  [ game   |-> [ended EXCEPT !.current_player = ~ended.current_player],
               result |-> Ok ]

\* pass that scores the game at every pass.
pass_ScoresEveryPass(g) ==
    IF g.status # InProgress THEN [game |-> g, result |-> ErrGameOver]
    ELSE LET counted == [g EXCEPT !.pass_count = @ + 1]
             ended   == IF counted.pass_count >= 2
                        THEN determine_winner([counted EXCEPT !.status = Ended])
                        ELSE determine_winner(counted)
         IN  [ game   |-> [ended EXCEPT !.current_player = ~ended.current_player],
               result |-> Ok ]

\* pass without the status test.
pass_NoStatusCheck(g) ==
    LET counted == [g EXCEPT !.pass_count = @ + 1]
        ended   == IF counted.pass_count >= 2
                   THEN determine_winner([counted EXCEPT !.status = Ended])
                   ELSE counted
    IN  [ game   |-> [ended EXCEPT !.current_player = ~ended.current_player],
          result |-> Ok ]

\* pass with the switch of players only while the game goes on.
pass_NoFlipAtEnd(g) ==
    IF g.status # InProgress THEN [game |-> g, result |-> ErrGameOver]
    ELSE LET counted == [g EXCEPT !.pass_count = @ + 1]
         IN  IF counted.pass_count >= 2
             THEN [ game   |-> determine_winner([counted EXCEPT !.status = Ended]),
                    result |-> Ok ]
             ELSE [ game   |-> [counted EXCEPT !.current_player = ~counted.current_player],
                    result |-> Ok ]

\* Game::pass
pass(g) ==
    IF g.status # InProgress THEN [game |-> g, result |-> ErrGameOver]
    ELSE LET counted == [g EXCEPT !.pass_count = @ + 1]
             ended   == IF counted.pass_count >= 2
                        THEN determine_winner([counted EXCEPT !.status = Ended])
                        ELSE counted
         IN  [ game   |-> [ended EXCEPT !.current_player = ~ended.current_player],
               result |-> Ok ]

\* resign with the resigner as the winner.
resign_WinnerSelf(g) ==
    IF g.status # InProgress THEN [game |-> g, result |-> ErrGameOver]
    ELSE [ game   |-> [g EXCEPT !.status = Resigned,
                                !.winner = Some(CurrentStone(g))],
           result |-> Ok ]

\* Game::resign
resign(g) ==
    IF g.status # InProgress THEN [game |-> g, result |-> ErrGameOver]
    ELSE [ game   |-> [g EXCEPT !.status = Resigned,
                                !.winner = Some(IF CurrentStone(g) = Black
                                                THEN White ELSE Black)],
           result |-> Ok ]

-----------------------------------------------------------------------------
(* gtp/mod.rs *)

\* A string is the sequence of the code points of its chars.  The value a
\* call of the front end comes to is a record: panic is TRUE when the call
\* ends in an arithmetic panic and returns nothing.  An operation that
\* overflows panics in a build with overflow checks and wraps in a build
\* without them, so a function that can overflow is the set of its outcomes.
Returned(v) == [panic |-> FALSE, value |-> v]

Panicked == [panic |-> TRUE, value |-> None]

\* usize::MAX, the value 0usize - 1 wraps to.  It stands here as the largest
\* integer of the model; it is only compared with a board size.
UsizeMax == 2147483647

\* c as u8 for a char or usize c: the low eight bits.
U8(c) == c % 256

\* The number of bytes of char c in UTF-8, which str::len counts.
Utf8Len(c) == IF c < 128 THEN 1 ELSE IF c < 2048 THEN 2 ELSE IF c < 65536 THEN 3 ELSE 4

\* str::len
RECURSIVE StrLen(_)
StrLen(str) == IF str = <<>> THEN 0 ELSE Utf8Len(Head(str)) + StrLen(Tail(str))

\* char::to_ascii_uppercase: 'a'..'z' (97..122) go to 'A'..'Z'.
to_ascii_uppercase(c) == IF c \in 97..122 THEN c - 32 ELSE c

\* The digits of parse::<usize> from position k on, with the value read so
\* far: the value for digits '0'..'9' (48..57) only, an error (<<>>) for
\* any other char.
RECURSIVE ParseDigits(_, _, _)
ParseDigits(str, k, n) ==
    IF k > Len(str) THEN <<n>>
    ELSE IF str[k] \in 48..57 THEN ParseDigits(str, k + 1, 10 * n + (str[k] - 48))
    ELSE <<>>

\* str::parse::<usize>: <<n>> for Ok(n), <<>> for Err.  An empty string
\* and a lone sign are errors; a leading '+' (43) is skipped; '-' is no
\* digit of an unsigned type.
ParseUsize(str) ==
    IF str = <<>> THEN <<>>
    ELSE IF str[1] = 43 THEN (IF Len(str) = 1 THEN <<>> ELSE ParseDigits(str, 2, 0))
    ELSE ParseDigits(str, 1, 0)

\* The outcomes of `(col_char as u8 - b'A') as usize`.
ColumnStart(col_char) ==
    IF U8(col_char) >= 65
    THEN {[panic |-> FALSE, x |-> U8(col_char) - 65]}
    ELSE {[panic |-> TRUE, x |-> 0], [panic |-> FALSE, x |-> U8(col_char) - 65 + 256]}

\* The outcomes of `if col_char > 'I' { x -= 1; }`.
ColumnSkipI(col_char, x) ==
    IF col_char > 73
    THEN IF x >= 1 THEN {[panic |-> FALSE, x |-> x - 1]}
         ELSE {[panic |-> TRUE, x |-> 0], [panic |-> FALSE, x |-> UsizeMax]}
    ELSE {[panic |-> FALSE, x |-> x]}

\* The end of parse_gtp_move: the match on the parsed row and the final
\* range test.
ParsedVertex(x, row, board_size) ==
    IF row # <<>> /\ row[1] > 0 /\ row[1] <= board_size
    THEN IF x < board_size /\ row[1] - 1 < board_size
         THEN Some(<<x, row[1] - 1>>) ELSE None
    ELSE None

\* parse_gtp_move: the set of its outcomes.
parse_gtp_move(move_str, board_size) ==
    IF StrLen(move_str) < 2 THEN {Returned(None)}
    ELSE IF to_ascii_uppercase(move_str[1]) = 73 THEN {Returned(None)}
    ELSE UNION {
           IF a.panic THEN {Panicked}
           ELSE UNION {
                  IF b.panic THEN {Panicked}
                  ELSE {Returned(ParsedVertex(b.x, ParseUsize(Tail(move_str)), board_size))}
                  : b \in ColumnSkipI(to_ascii_uppercase(move_str[1]), a.x) }
           : a \in ColumnStart(to_ascii_uppercase(move_str[1])) }

\* The decimal digits of n, as format!("{}", n) writes a usize.
RECURSIVE Decimal(_)
Decimal(n) == IF n < 10 THEN <<48 + n>> ELSE Append(Decimal(n \div 10), 48 + (n % 10))

\* format_move.  The u8 sums stay below 256 for every x below 190.
format_move(x, y) ==
    <<IF x < 8 THEN 65 + U8(x) ELSE 65 + U8(x) + 1>> \o Decimal(y + 1)

\* The response strings of the handlers are sequences of their words:
\* <<>> is "", <<"?", e>> is format!("? {}", e).
Success == <<>>

Failure(e) == <<"?", e>>

\* The match on color.to_lowercase() in play, is_legal and list_stones, for
\* a colour word in lower case: Some(stone), or None for any other word.
ParseColor(color) ==
    IF color = "black" THEN Some(Black)
    ELSE IF color = "white" THEN Some(White)
    ELSE None

\* str::to_lowercase on the chars 'A'..'Z' (65..90); other chars of the
\* strings used here have no lower case.
to_lowercase(str) == [k \in DOMAIN str |-> IF str[k] \in 65..90 THEN str[k] + 32 ELSE str[k]]

\* The string "pass".
PassString == <<112, 97, 115, 115>>

\* The response of play and the game it leaves, for a Result of the game.
PlayResponse(r) ==
    [ panic |-> FALSE, game |-> r.game,
      response |-> IF r.result = Ok THEN Success ELSE Failure(r.result) ]

\* GTPHandler::play on game g: the set of its outcomes.  The stone named
\* by the colour word is not used; make_move is called with (y, x).
play(g, color, move_str) ==
    IF ParseColor(color) = None
    THEN {[panic |-> FALSE, game |-> g, response |-> Failure("invalid color")]}
    ELSE IF to_lowercase(move_str) = PassString THEN {PlayResponse(pass(g))}
    ELSE { IF parsed.panic THEN [panic |-> TRUE, game |-> g, response |-> Success]
           ELSE IF parsed.value # None
           THEN PlayResponse(make_move(g, parsed.value[1][2], parsed.value[1][1]))
           ELSE [panic |-> FALSE, game |-> g, response |-> Failure("invalid move")]
           : parsed \in parse_gtp_move(move_str, g.board.size) }

\* The loops of genmove from cell (x, y) on, row by row, and the pass after
\* them: make_move(y, x) is tried on every cell get_stone(x, y) finds Empty,
\* on the game the refused tries before it have left; the first accepted
\* try is answered with the vertex of (x, y).
RECURSIVE GenmoveFrom(_, _, _)
GenmoveFrom(g, x, y) ==
    IF y >= g.board.size
    THEN [ game |-> pass(g).game,
           response |-> IF pass(g).result = Ok THEN PassString
                        ELSE Failure(pass(g).result) ]
    ELSE IF x >= g.board.size THEN GenmoveFrom(g, 0, y + 1)
    ELSE IF get_stone(g.board, x, y) = Empty
    THEN IF make_move(g, y, x).result = Ok
         THEN [game |-> make_move(g, y, x).game, response |-> format_move(x, y)]
         ELSE GenmoveFrom(make_move(g, y, x).game, x + 1, y)
    ELSE GenmoveFrom(g, x + 1, y)

\* GTPHandler::genmove on game g.  The stone named by the colour word is
\* not used.
genmove(g, color) ==
    IF ParseColor(color) = None
    THEN [game |-> g, response |-> Failure("invalid color")]
    ELSE GenmoveFrom(g, 0, 0)

\* GTPHandler::is_legal on game g: the set of its outcomes.  The cell is
\* read with get_stone(x, y) and the trial placement is place_stone(y, x).
is_legal(g, color, move_str) ==
    IF ParseColor(color) = None
    THEN {[panic |-> FALSE, response |-> Failure("invalid color")]}
    ELSE IF to_lowercase(move_str) = PassString
    THEN {[panic |-> FALSE, response |-> <<"1">>]}
    ELSE { IF parsed.panic THEN [panic |-> TRUE, response |-> Success]
           ELSE IF /\ parsed.value # None
                   /\ get_stone(g.board, parsed.value[1][1], parsed.value[1][2]) = Empty
           THEN [ panic |-> FALSE,
                  response |->
                      IF place_stone(g.board, parsed.value[1][2], parsed.value[1][1],
                                     ParseColor(color)[1]).result = Ok
                      THEN <<"1">> ELSE <<"0">> ]
           ELSE [panic |-> FALSE, response |-> <<"0">>]
           : parsed \in parse_gtp_move(move_str, g.board.size) }

\* The loops of list_stones from cell (x, y) on, row by row: the vector of
\* the formatted cells that hold the stone.
RECURSIVE ListedFrom(_, _, _, _)
ListedFrom(b, stone, x, y) ==
    IF y >= b.size THEN <<>>
    ELSE IF x >= b.size THEN ListedFrom(b, stone, 0, y + 1)
    ELSE IF get_stone(b, x, y) = stone
    THEN <<format_move(x, y)>> \o ListedFrom(b, stone, x + 1, y)
    ELSE ListedFrom(b, stone, x + 1, y)

\* [String]::join("\n"): the strings with a line feed (10) between them.
RECURSIVE Join(_)
Join(strs) ==
    IF strs = <<>> THEN <<>>
    ELSE IF Len(strs) = 1 THEN strs[1]
    ELSE strs[1] \o <<10>> \o Join(Tail(strs))

\* GTPHandler::list_stones on board b; Failure for an unknown colour word.
list_stones(b, color) ==
    IF ParseColor(color) = None THEN Failure("invalid color")
    ELSE Join(ListedFrom(b, ParseColor(color)[1], 0, 0))

\* The char showboard draws for a stone: 'X', 'O' or '.'.
StoneChar(stone) == IF stone = Black THEN 88 ELSE IF stone = White THEN 79 ELSE 46

\* The loops of showboard from cell (x, y) on: a char and a space (32) for
\* each cell, a line feed after each row.
RECURSIVE ShownFrom(_, _, _)
ShownFrom(b, x, y) ==
    IF y >= b.size THEN <<>>
    ELSE IF x >= b.size THEN <<10>> \o ShownFrom(b, 0, y + 1)
    ELSE <<StoneChar(get_stone(b, x, y)), 32>> \o ShownFrom(b, x + 1, y)

\* GTPHandler::showboard
showboard(b) == ShownFrom(b, 0, 0)

-----------------------------------------------------------------------------
(* The state machine *)

\* The variables take the fields of game g; the call and its result are noted.
Becomes(g, op, result) ==
    /\ board' = g.board
    /\ current_player' = g.current_player
    /\ history' = g.history
    /\ captured_stones' = g.captured_stones
    /\ pass_count' = g.pass_count
    /\ status' = g.status
    /\ winner' = g.winner
    /\ last' = [op |-> op, result |-> result]
    /\ passed' = (passed \/ (op = "pass" /\ result = Ok))

Init ==
    \E size \in Sizes :
        /\ board = NewBoard(size)
        /\ current_player = TRUE
        /\ history = <<>>
        /\ captured_stones = [i \in 0..1 |-> 0]
        /\ pass_count = 0
        /\ status = InProgress
        /\ winner = None
        /\ last = [op |-> "new", result |-> Ok]
        /\ passed = FALSE

\* The coordinate pairs the calls are made with: every cell of the board,
\* and pairs out of range on the first axis, the second, and both.
Coordinates ==
    ((0..(board.size - 1)) \X (0..(board.size - 1)))
        \cup {<<board.size, 0>>, <<0, board.size>>, <<board.size, board.size>>}

\* A call of Game::make_move(row, col).
MakeMove(row, col) ==
    \E r \in {make_move(Game, row, col)} :
        /\ Len(r.game.history) <= MaxHistory
        /\ Becomes(r.game, "make_move", r.result)

UndoMove ==
    \E r \in {undo_move(Game)} : Becomes(r.game, "undo_move", r.result)

Pass ==
    \E r \in {pass(Game)} : Becomes(r.game, "pass", r.result)

Resign ==
    \E r \in {resign(Game)} : Becomes(r.game, "resign", r.result)

Next ==
    \/ \E c \in Coordinates : MakeMove(c[1], c[2])
    \/ UndoMove
    \/ Pass
    \/ Resign

Spec == Init /\ [][Next]_vars

\* A call of Board::place_stone(x, y, stone) on a Board that is driven
\* directly, with either colour whatever was placed before.
PlaceStone(x, y, stone) ==
    /\ board.captured[0] + board.captured[1] < MaxCaptured
    /\ stones_on_board(board, Black) + stones_on_board(board, White) < MaxStones
    /\ \E r \in {place_stone(board, x, y, stone)} :
           /\ board' = r.board
           /\ last' = [op |-> "place_stone", result |-> r.result]
    /\ UNCHANGED <<current_player, history, captured_stones, pass_count, status, winner,
                   passed>>

NextBoard ==
    \E c \in Coordinates, stone \in {Black, White} : PlaceStone(c[1], c[2], stone)

SpecBoard == Init /\ [][NextBoard]_vars

\* A call of Board::get_stone(x, y) on the game's board; it returns the
\* stone, or panics.
GetStone(x, y) ==
    /\ last' = [op |-> "get_stone", result |-> get_stone(board, x, y)]
    /\ UNCHANGED <<board, current_player, history, captured_stones, pass_count,
                   status, winner, passed>>

\* A call of Board::find_group(x, y) on the game's board; the result noted
\* is "Some" for Some(group), "None" for None.
FindGroup(x, y) ==
    /\ \E r \in {find_group(board, x, y)} :
           last' = [op |-> "find_group", result |-> IF r = None THEN "None" ELSE "Some"]
    /\ UNCHANGED <<board, current_player, history, captured_stones, pass_count,
                   status, winner, passed>>

\* The calls that take coordinates, on a game that moves are made in:
\* make_move (and place_stone through it), get_stone and find_group.
NextAccess ==
    \/ \E c \in Coordinates : MakeMove(c[1], c[2])
    \/ \E c \in Coordinates : GetStone(c[1], c[2])
    \/ \E c \in Coordinates : FindGroup(c[1], c[2])

SpecAccess == Init /\ [][NextAccess]_vars

\* A call of GameRules::is_legal_move(board, x, y, stone) under a rules
\* configuration.
IsLegalMove(rules, x, y, stone) ==
    /\ last' = [op |-> "is_legal_move", result |-> is_legal_move(rules, board, x, y, stone)]
    /\ UNCHANGED <<board, current_player, history, captured_stones, pass_count,
                   status, winner, passed>>

\* A call of MoveGenerator::is_valid_move(board, row, col, player); the
\* result noted is "true" or "false".
IsValidMove(row, col, player) ==
    /\ last' = [op     |-> "is_valid_move",
                result |-> IF is_valid_move(board, row, col, player)
                           THEN "true" ELSE "false"]
    /\ UNCHANGED <<board, current_player, history, captured_stones, pass_count,
                   status, winner, passed>>

\* The legality functions asked about a Board that place_stone calls build.
NextRules ==
    \/ /\ stones_on_board(board, Black) + stones_on_board(board, White) < MaxRulesStones
       /\ \E c \in Coordinates, stone \in {Black, White} : PlaceStone(c[1], c[2], stone)
    \/ \E rules \in GameRules, c \in Coordinates, stone \in {Black, White} :
           IsLegalMove(rules, c[1], c[2], stone)
    \/ \E c \in Coordinates, player \in {Black, White} : IsValidMove(c[1], c[2], player)

SpecRules == Init /\ [][NextRules]_vars

\* The board sizes parse_gtp_move is called with.
BoardSizes == 1..25

\* The first chars of the strings parsed: '0', '@', 'A', 'H', 'I', 'J', 'Z',
\* '[', '`', 'a', 'i', 'j', 'z', '{', and U+0141, U+0142, whose low bytes
\* are those of 'A' and 'B'.
FirstChars == {48, 64, 65, 72, 73, 74, 90, 91, 96, 97, 105, 106, 122, 123, 321, 322}

\* The chars of the row strings parsed: '+', '-', '0', '1', '2', '5', '6'.
RowChars == {43, 45, 48, 49, 50, 53, 54}

\* The row strings parsed: every string of at most two row chars.
RowStrings ==
    {<<>>} \cup {<<c>> : c \in RowChars} \cup {<<c, d>> : c \in RowChars, d \in RowChars}

\* The strings parsed: the empty string and a first char before a row string.
MoveStrings == {<<>>} \cup {<<c>> \o row : c \in FirstChars, row \in RowStrings}

\* GTPHandler::new(size) for a board size of the text checks.
InitText ==
    \E size \in BoardSizes :
        /\ board = NewBoard(size)
        /\ current_player = TRUE
        /\ history = <<>>
        /\ captured_stones = [i \in 0..1 |-> 0]
        /\ pass_count = 0
        /\ status = InProgress
        /\ winner = None
        /\ last = [op |-> "new", result |-> Ok]
        /\ passed = FALSE

\* A call of format_move(x, y) for a cell of the handler's board.
FormatMove(x, y) ==
    /\ last' = [op |-> "format_move", arg |-> <<x, y>>, result |-> format_move(x, y)]
    /\ UNCHANGED <<board, current_player, history, captured_stones, pass_count,
                   status, winner, passed>>

\* A call of parse_gtp_move(move_str, self.game.board.size()), with one of
\* its outcomes.
ParseGtpMove(move_str) ==
    /\ \E outcome \in parse_gtp_move(move_str, board.size) :
           last' = [op |-> "parse_gtp_move", arg |-> move_str, result |-> outcome]
    /\ UNCHANGED <<board, current_player, history, captured_stones, pass_count,
                   status, winner, passed>>

\* The two functions keep no state: a behaviour applies one of them, once,
\* to an input drawn for the handler just constructed.
NextText ==
    \/ /\ last.op = "new"
       /\ \E x, y \in 0..(board.size - 1) : FormatMove(x, y)
    \/ /\ last.op = "new"
       /\ \E move_str \in MoveStrings : ParseGtpMove(move_str)

SpecText == InitText /\ [][NextText]_vars

\* The colour words the handlers are called with.
ColorWords == {"black", "white", "green"}

\* The move strings the handlers are called with on the board of the
\* state: the vertex of every cell and of the cells one column or one row
\* off the board, "I1" and "pass".
GtpStrings ==
    {format_move(x, y) : x \in 0..board.size, y \in 0..board.size}
        \cup {<<73, 49>>, PassString}

\* What a handler's outcome is noted as: the response, or the word panic.
\* Of the arguments, the move string of play is noted.
Noted(outcome) == IF outcome.panic THEN <<"panic">> ELSE outcome.response

\* A call of GTPHandler::play(color, move_str), with one of its outcomes.
Play(color, move_str) ==
    \E outcome \in play(Game, color, move_str) :
        /\ Len(outcome.game.history) <= MaxGtpHistory
        /\ board' = outcome.game.board
        /\ current_player' = outcome.game.current_player
        /\ history' = outcome.game.history
        /\ captured_stones' = outcome.game.captured_stones
        /\ pass_count' = outcome.game.pass_count
        /\ status' = outcome.game.status
        /\ winner' = outcome.game.winner
        /\ last' = [op |-> "play", arg |-> move_str, result |-> Noted(outcome)]
        /\ passed' = (passed \/ (/\ ParseColor(color) # None
                                  /\ to_lowercase(move_str) = PassString
                                  /\ Noted(outcome) = Success))

\* A call of GTPHandler::genmove(color); the colour word is noted.
Genmove(color) ==
    \E outcome \in {genmove(Game, color)} :
        /\ Len(outcome.game.history) <= MaxGtpHistory
        /\ board' = outcome.game.board
        /\ current_player' = outcome.game.current_player
        /\ history' = outcome.game.history
        /\ captured_stones' = outcome.game.captured_stones
        /\ pass_count' = outcome.game.pass_count
        /\ status' = outcome.game.status
        /\ winner' = outcome.game.winner
        /\ last' = [op |-> "genmove", arg |-> color, result |-> outcome.response]
        /\ passed' = (passed \/ outcome.game.pass_count > pass_count)

\* A call of GTPHandler::is_legal(color, move_str), with one of its outcomes.
IsLegal(color, move_str) ==
    /\ \E outcome \in is_legal(Game, color, move_str) :
           last' = [op |-> "is_legal", result |-> Noted(outcome)]
    /\ UNCHANGED <<board, current_player, history, captured_stones, pass_count,
                   status, winner, passed>>

\* A call of GTPHandler::list_stones(color).
ListStones(color) ==
    /\ last' = [op |-> "list_stones", result |-> list_stones(board, color)]
    /\ UNCHANGED <<board, current_player, history, captured_stones, pass_count,
                   status, winner, passed>>

\* A call of GTPHandler::showboard.
Showboard ==
    /\ last' = [op |-> "showboard", result |-> showboard(board)]
    /\ UNCHANGED <<board, current_player, history, captured_stones, pass_count,
                   status, winner, passed>>

NextGtp ==
    \/ \E color \in ColorWords, move_str \in GtpStrings : Play(color, move_str)
    \/ \E color \in ColorWords : Genmove(color)
    \/ \E color \in ColorWords, move_str \in GtpStrings : IsLegal(color, move_str)
    \/ \E color \in ColorWords : ListStones(color)
    \/ Showboard

SpecGtp == Init /\ [][NextGtp]_vars

-----------------------------------------------------------------------------
(* Properties *)

\* The cells (x, y) of board b.
Cells(b) == (0..(b.size - 1)) \X (0..(b.size - 1))

\* The stone of board b at cell p = (x, y).
At(b, p) == b.grid[p[2]][p[1]]

\* The cells that hold a stone on board b and are Empty on board c.
Removed(b, c) == {p \in Cells(b) : At(b, p) # Empty /\ At(c, p) = Empty}

\* The step is a call of op: the call is what the step notes in last.
Called(op) == last'.op = op

Accepted(op) == Called(op) /\ last'.result = Ok

Rejected(op) == Called(op) /\ last'.result # Ok

\* C1: a place_stone call that returns an error leaves the Board as it was:
\* every grid cell, both capture counts and the ko point.
C1_RejectedPlaceStoneLeavesBoard ==
    [][Rejected("place_stone") => board' = board]_vars

\* C2: a make_move call that returns an error leaves the game as it was:
\* board (grid, ko point, capture counts), current player, captured counts,
\* pass count, status, winner and history.
C2_RejectedMakeMoveLeavesGame ==
    [][Rejected("make_move") =>
          UNCHANGED <<board, current_player, history, captured_stones,
                      pass_count, status, winner>>]_vars

\* C3: after an accepted place_stone the ko point is the removed stone's cell
\* if the placement removed exactly one stone in total, and None if it
\* removed no stone or two or more.
C3_KoPointIffOneStoneRemoved ==
    [][Accepted("place_stone") =>
          LET removed == Removed(board, board')
          IN  board'.ko_point = IF Cardinality(removed) = 1
                                THEN Some(CHOOSE p \in removed : TRUE)
                                ELSE None]_vars

\* C4: right after an accepted placement has set the ko point to P, a
\* placement at P by either colour is rejected with the ko error; after any
\* other accepted placement P is no longer banned, and a placement at P
\* returns what it would return with no ko point at all.
C4_KoPointBansOnePly ==
    [][Accepted("place_stone") =>
          /\ board'.ko_point # None =>
                \A stone \in {Black, White} :
                    place_stone(board', board'.ko_point[1][1], board'.ko_point[1][2],
                                stone).result = ErrKo
          /\ board.ko_point # None =>
                LET P == board.ko_point[1]
                IN  /\ board'.ko_point # Some(P)
                    /\ \A stone \in {Black, White} :
                          LET r == place_stone(board', P[1], P[2], stone)
                          IN  /\ r.result \in {Ok, ErrSuicide}
                              /\ r.result = place_stone(clear_ko_point(board'),
                                                        P[1], P[2], stone).result]_vars

\* A placement at the ko point was just rejected with the ko error.
C4_Witness ==
    /\ last = [op |-> "place_stone", result |-> ErrKo]
    /\ board.ko_point # None

\* C5: the ko point lasts one ply: if it is set after an accepted move or
\* pass, that operation was a placement that removed exactly the stone at
\* that point; an accepted pass leaves no ko point.
C5_KoPointLastsOnePly ==
    [][(Accepted("make_move") \/ Accepted("pass")) =>
          (board'.ko_point # None =>
              /\ Called("make_move")
              /\ Removed(board, board') = {board'.ko_point[1]})]_vars

\* The cells orthogonally adjacent to cell p on board b.
Adjacent(b, p) ==
    {q \in Cells(b) : (q[1] = p[1] /\ (q[2] = p[2] + 1 \/ q[2] = p[2] - 1))
                      \/ (q[2] = p[2] /\ (q[1] = p[1] + 1 \/ q[1] = p[1] - 1))}

\* The least set of cells that holds S and every cell of the given colour
\* adjacent to one of its cells.
RECURSIVE Grow(_, _, _)
Grow(b, color, S) ==
    LET T == S \cup {q \in Cells(b) : At(b, q) = color /\ \E p \in S : q \in Adjacent(b, p)}
    IN  IF T = S THEN S ELSE Grow(b, color, T)

\* The maximal 4-connected same-colour set of cells that holds cell p.
Component(b, p) == Grow(b, At(b, p), {p})

\* The Empty cells adjacent to a cell of S.
LibertiesOf(b, S) == {q \in Cells(b) : At(b, q) = Empty /\ \E p \in S : q \in Adjacent(b, p)}

\* C6: for an in-bounds, empty, non-ko target, place_stone returns the
\* suicide error exactly when, with the stone placed, no adjacent opponent
\* group is without liberties (nothing is captured) and the placed stone's
\* own group is without liberties; the target is then Empty again.
C6_SuicideIffNoCaptureNoLiberty ==
    \A p \in Cells(board), stone \in {Black, White} :
        (At(board, p) = Empty /\ board.ko_point # Some(p)) =>
            LET r        == place_stone(board, p[1], p[2], stone)
                t        == [board EXCEPT !.grid[p[2]][p[1]] = stone]
                opponent == IF stone = Black THEN White ELSE Black
                captures == \E q \in Adjacent(t, p) :
                                /\ At(t, q) = opponent
                                /\ LibertiesOf(t, Component(t, q)) = {}
                dead     == LibertiesOf(t, Component(t, p)) = {}
            IN  /\ r.result = ErrSuicide <=> (~captures /\ dead)
                /\ r.result = ErrSuicide => At(r.board, p) = Empty
                /\ r.result # ErrSuicide => r.result = Ok

\* A placement was just rejected as suicide on a board that holds stones of
\* both colours.
C6_Witness ==
    /\ last = [op |-> "place_stone", result |-> ErrSuicide]
    /\ \E p, q \in Cells(board) : At(board, p) = Black /\ At(board, q) = White

\* The Game value held by the variables after the step.
GameNext ==
    [ board           |-> board',
      current_player  |-> current_player',
      history         |-> history',
      captured_stones |-> captured_stones',
      pass_count      |-> pass_count',
      status          |-> status',
      winner          |-> winner' ]

\* C7: when an accepted move by colour C removes k opponent stones, the
\* capture total Game::captured reports for C grows by k and the one it
\* reports for the opponent is unchanged.
C7_CaptureCreditsPlacingColour ==
    [][Accepted("make_move") =>
          LET mover    == CurrentStone(Game)
              opponent == IF mover = Black THEN White ELSE Black
              k        == Cardinality(Removed(board, board'))
          IN  /\ captured(GameNext, mover) = captured(Game, mover) + k
              /\ captured(GameNext, opponent) = captured(Game, opponent)]_vars

\* The score of a colour: its stones on the board plus the capture total
\* the game reports for it.
Score(color) ==
    Cardinality({p \in Cells(board) : At(board, p) = color}) + captured(Game, color)

\* The game was just ended by an accepted pass.
EndedByPass ==
    /\ last = [op |-> "pass", result |-> Ok]
    /\ status = Ended

C9_HistoryCountsMovesAndPasses ==
    [][Len(history') =
          IF Accepted("make_move") \/ Accepted("pass") THEN Len(history) + 1
          ELSE IF Called("undo_move") /\ last'.result = "Some" THEN Len(history) - 1
          ELSE Len(history)]_vars

\* The game after undo_move was called until the history is empty.
RECURSIVE UndoAll(_)
UndoAll(g) == IF g.history = <<>> THEN g ELSE UndoAll(undo_move(g).game)

C11_RejectedMakeMoveKeepsHistory ==
    [][Rejected("make_move") => history' = history]_vars

\* A make_move was just rejected by place_stone on a game with snapshots in
\* its history.
C11_Witness ==
    /\ last.op = "make_move"
    /\ last.result \in {ErrOutOfBounds, ErrOccupied, ErrKo, ErrSuicide}
    /\ history # <<>>

\* C12: when the status is Ended or Resigned, make_move, pass and resign
\* each return the game-already-over error and leave board, current player,
\* captured counts, pass count, status, winner and history as they were.
C12_GameOverRejectsAndKeeps ==
    [][(status # InProgress /\ (Called("make_move") \/ Called("pass") \/ Called("resign")))
          => /\ last'.result = ErrGameOver
             /\ UNCHANGED <<board, current_player, history, captured_stones,
                            pass_count, status, winner>>]_vars

\* A call was just rejected with the game-already-over error on a game that
\* two passes ended with stones on the board.
C12_Witness ==
    /\ last.result = ErrGameOver
    /\ status = Ended
    /\ history # <<>>

\* C13: once the status is Ended or Resigned, no call of make_move, pass,
\* resign or undo_move changes the status or the winner.
C13_GameOverIsTerminal ==
    [][status # InProgress => (status' = status /\ winner' = winner)]_vars

\* A snapshot was just popped by undo_move on a resigned game.
C13_Witness ==
    /\ last = [op |-> "undo_move", result |-> "Some"]
    /\ status = Resigned
    /\ winner # None

\* C14: the status goes from InProgress to Ended exactly on an accepted pass
\* made when the pass counter is already 1 or more; the counter is 0 after
\* every accepted placement, kept by a rejected one, raised by one by every
\* accepted pass and changed by no other call, so it is 1 or more exactly
\* when a pass was accepted and no placement was accepted since; an accepted
\* pass at counter 0 leaves the game InProgress with counter 1.
C14_EndedOnSecondPass ==
    [][/\ (status = InProgress /\ status' = Ended)
            <=> (Accepted("pass") /\ pass_count >= 1)
       /\ Accepted("make_move") => pass_count' = 0
       /\ Rejected("make_move") => pass_count' = pass_count
       /\ Accepted("pass") => pass_count' = pass_count + 1
       /\ (Accepted("pass") /\ pass_count = 0)
            => (status' = InProgress /\ pass_count' = 1)
       /\ ~(Accepted("make_move") \/ Accepted("pass"))
            => pass_count' = pass_count]_vars

\* A second pass just ended a game whose history holds no placement.
C14_Witness ==
    /\ EndedByPass
    /\ pass_count = 2
    /\ history = <<>>

\* C15: resign while InProgress is accepted, sets the status to Resigned and
\* the winner to the opponent of the player to move, and leaves board,
\* current player, captured counts, pass count and history as they were.
C15_ResignOpponentWins ==
    [][(status = InProgress /\ Called("resign"))
          => /\ last'.result = Ok
             /\ status' = Resigned
             /\ winner' = Some(IF current_player THEN White ELSE Black)
             /\ UNCHANGED <<board, current_player, history, captured_stones,
                            pass_count>>]_vars

\* White just resigned with White to move, and Black is the winner.
C15_Witness ==
    /\ last = [op |-> "resign", result |-> Ok]
    /\ status = Resigned
    /\ ~current_player
    /\ winner = Some(Black)

\* What an accepted make_move(row, col) does, for every cell of the board
\* in every state a move is made from: get_stone(row, col) is then the
\* colour that was to move, the captured counts are the board's capture
\* totals, the pass counter is 0 and the other colour is to move.
AcceptedMoveEffect ==
    Len(history) < MaxHistory =>
        \A c \in Cells(board) :
            \E r \in {make_move(Game, c[1], c[2])} :
                r.result = Ok =>
                    /\ get_stone(r.game.board, c[1], c[2]) = CurrentStone(Game)
                    /\ r.game.captured_stones = get_captured(r.game.board)
                    /\ r.game.pass_count = 0
                    /\ r.game.current_player = ~current_player

\* The accepted moves that stand (one snapshot each, taken with the mover
\* to move) are by Black, White, Black, ... in turn.
MoversAlternate ==
    \A i \in 1..Len(history) : history[i].current_player = (i % 2 = 1)

C17_PassFlipsAndKeepsBoard ==
    [][Accepted("pass") =>
          /\ current_player' = ~current_player
          /\ board'.grid = board.grid
          /\ captured_stones' = captured_stones
          /\ get_captured(board') = get_captured(board)]_vars

\* White's pass just ended a game with stones on the board, and Black is to
\* move.
C17_Witness ==
    /\ EndedByPass
    /\ current_player
    /\ \E p \in Cells(board) : At(board, p) # Empty

\* C18: undo_move on an empty history returns None and leaves board,
\* current player, captured counts, pass count, status, winner and history
\* as they were.
C18_UndoOnEmptyHistory ==
    [][(Called("undo_move") /\ history = <<>>) =>
          /\ last'.result = "None"
          /\ UNCHANGED <<board, current_player, history, captured_stones,
                         pass_count, status, winner>>]_vars

\* undo_move just returned None on a game in which a pass was made.
C18_Witness ==
    /\ last = [op |-> "undo_move", result |-> "None"]
    /\ history = <<>>
    /\ passed

\* C19: the Board of a game that was just created reports Empty at every
\* coordinate, zero captures for both colours and no ko point, and the game
\* has Black to move, an empty history, pass count 0, status InProgress and
\* no winner; Board::new and Game::new give such values for every size.
C19_FreshBoardAndGame ==
    last.op = "new" =>
        /\ \A c \in Cells(board) : get_stone(board, c[1], c[2]) = Empty
        /\ \A i \in 0..1 : get_captured(board)[i] = 0
        /\ board.ko_point = None
        /\ CurrentStone(Game) = Black
        /\ history = <<>>
        /\ pass_count = 0
        /\ status = InProgress
        /\ winner = None
        /\ \A size \in Sizes :
               \E b \in {NewBoard(size)}, g \in {NewGame(size)} :
                   /\ b.size = size
                   /\ \A x, y \in 0..(size - 1) : get_stone(b, x, y) = Empty
                   /\ \A i \in 0..1 : get_captured(b)[i] = 0
                   /\ b.ko_point = None
                   /\ g.board = b
                   /\ CurrentStone(g) = Black
                   /\ g.history = <<>>
                   /\ g.pass_count = 0
                   /\ g.status = InProgress
                   /\ g.winner = None

\* A game on the largest board was just created.
C19_Witness ==
    /\ last.op = "new"
    /\ board.size = 3

\* The coordinate pairs of Coordinates that are out of range on an axis.
OutOfRange == {c \in Coordinates : c[1] >= board.size \/ c[2] >= board.size}

\* find_group, place_stone and make_move test the coordinates before they
\* index the grid: an out-of-range pair gives None, or the out-of-bounds
\* error.
OutOfRangeIsRefused ==
    \A c \in OutOfRange :
        /\ find_group(board, c[1], c[2]) = None
        /\ \A stone \in {Black, White} :
               place_stone(board, c[1], c[2], stone) =
                   [board |-> board, result |-> ErrOutOfBounds]
        /\ make_move(Game, c[1], c[2]) = [game |-> Game, result |-> ErrOutOfBounds]

\* C20: no call of get_stone, find_group, place_stone or make_move faults,
\* whatever the coordinates: none indexes the grid out of [0, size), and an
\* out-of-range pair gives an error or an empty result.
C20_NoFaultOnCoordinates ==
    /\ last.result # Panic
    /\ OutOfRangeIsRefused

\* The placements on an empty cell of the board that capture nothing and
\* leave their own group with zero liberties: place_stone returns the
\* suicide error for them.
SuicidePlacements ==
    {m \in Cells(board) \X {Black, White} :
        /\ At(board, m[1]) = Empty
        /\ place_stone(board, m[1][1], m[1][2], m[2]).result = ErrSuicide}

\* C21: a placement that captures nothing and leaves its own group with
\* zero liberties is accepted by is_legal_move when allow_suicide is true,
\* and rejected with the suicide error when it is false.
C21_AllowSuicideAccepts ==
    \A m \in SuicidePlacements, ko \in KoRule :
        /\ is_legal_move([allow_suicide |-> TRUE, ko_rule |-> ko],
                         board, m[1][1], m[1][2], m[2]) = Ok
        /\ is_legal_move([allow_suicide |-> FALSE, ko_rule |-> ko],
                         board, m[1][1], m[1][2], m[2]) = ErrSuicide

\* C22: at the board's ko point, is_legal_move never returns the ko error
\* with ko_rule = None and always returns it with ko_rule = Simple.
C22_KoCheckedOnlyWhenActive ==
    get_ko_point(board) # None =>
        \A stone \in {Black, White}, allow \in BOOLEAN :
            \E P \in {get_ko_point(board)[1]} :
                /\ is_legal_move([allow_suicide |-> allow, ko_rule |-> KoRuleNone],
                                 board, P[1], P[2], stone) # ErrKo
                /\ is_legal_move([allow_suicide |-> allow, ko_rule |-> KoRuleSimple],
                                 board, P[1], P[2], stone) = ErrKo

\* C23: for every cell of the board and each colour, is_valid_move returns
\* true exactly when place_stone with the same arguments would succeed.
C23_OneLegalityDecision ==
    \A c \in Cells(board), stone \in {Black, White} :
        is_valid_move(board, c[1], c[2], stone)
            <=> (place_stone(board, c[1], c[2], stone).result = Ok)

\* C24: place_stone reports the first error that applies, in the order
\* out of bounds, occupied, ko: an out-of-range pair gives the out-of-bounds
\* error, an occupied cell the occupied error, and an empty cell that is the
\* ko point the ko error, so the suicide error is returned only when none
\* of the three applies; this with the board's own ko point, and with the ko
\* point set on any cell by set_ko_point.
C24_FirstErrorInFixedOrder ==
    \A stone \in Stone :
        /\ \A c \in OutOfRange :
               place_stone(board, c[1], c[2], stone).result = ErrOutOfBounds
        /\ \A c \in Cells(board) :
               /\ At(board, c) # Empty =>
                      place_stone(board, c[1], c[2], stone).result = ErrOccupied
               /\ (At(board, c) = Empty /\ board.ko_point = Some(c)) =>
                      place_stone(board, c[1], c[2], stone).result = ErrKo
               /\ place_stone(set_ko_point(board, c[1], c[2]), c[1], c[2], stone).result
                      = IF At(board, c) # Empty THEN ErrOccupied ELSE ErrKo

\* A placement on an occupied cell was just rejected while a ko point was set.
C24_Witness ==
    /\ last = [op |-> "place_stone", result |-> ErrOccupied]
    /\ board.ko_point # None

\* The set of the positions of a sequence.
Positions(seq) == {seq[i] : i \in 1..Len(seq)}

\* C25: for an in-range seed cell that holds a stone, find_group returns the
\* seed's colour and the maximal orthogonally connected same-colour set of
\* cells that holds the seed, each position once; for an Empty or an
\* out-of-range seed it returns None.
C25_FindGroupIsComponent ==
    \A c \in Coordinates :
        \E g \in {find_group(board, c[1], c[2])} :
            IF c \in OutOfRange \/ At(board, c) = Empty THEN g = None
            ELSE /\ g # None
                 /\ g[1].color = At(board, c)
                 /\ Positions(g[1].positions) = Component(board, c)
                 /\ Len(g[1].positions) = Cardinality(Component(board, c))

\* The cells diagonally adjacent to cell p.
Diagonal(b, p) ==
    {q \in Cells(b) : (q[1] = p[1] + 1 \/ q[1] = p[1] - 1)
                      /\ (q[2] = p[2] + 1 \/ q[2] = p[2] - 1)}

\* The board holds a 2x2 block of one colour (a cycle of four stones) and a
\* stone of that colour that touches the block by a corner only.
C25_Witness ==
    \E c \in Cells(board) :
        /\ At(board, c) # Empty
        /\ {c, <<c[1] + 1, c[2]>>, <<c[1], c[2] + 1>>, <<c[1] + 1, c[2] + 1>>}
               \subseteq Component(board, c)
        /\ \E p \in Component(board, c) :
               \E d \in Diagonal(board, p) :
                   At(board, d) = At(board, c) /\ d \notin Component(board, c)

\* C26: the liberty count of the group of every stone is the number of
\* distinct Empty cells of the board orthogonally adjacent to a stone of
\* the group.
C26_LibertiesAreDistinctEmptyCells ==
    \A c \in Cells(board) :
        At(board, c) # Empty =>
            \E g \in {find_group(board, c[1], c[2])[1]} :
                /\ g.liberties = count_liberties_for_positions(board, g.positions)
                /\ g.liberties = Cardinality(LibertiesOf(board, Positions(g.positions)))

\* A group on the edge of the board has a liberty that two of its stones
\* are adjacent to.
C26_Witness ==
    \E c \in Cells(board) :
        /\ At(board, c) # Empty
        /\ \E q \in LibertiesOf(board, Component(board, c)) :
               Cardinality(Adjacent(board, q) \cap Component(board, c)) >= 2

\* The cells that are Empty on board b and hold a stone on board c.
Filled(b, c) == {p \in Cells(b) : At(b, p) = Empty /\ At(c, p) # Empty}

\* The stones of the opponent groups adjacent to cell p that have no liberty
\* on board t, where p holds the stone just placed.
DeadAround(t, p) ==
    UNION {Component(t, q) :
              q \in {q \in Adjacent(t, p) :
                        /\ At(t, q) \in {Black, White} \ {At(t, p)}
                        /\ LibertiesOf(t, Component(t, q)) = {}}}

\* The sum of the two capture counts of board b.
CaptureSum(b) == b.captured[0] + b.captured[1]

\* C27: an accepted placement fills one cell and removes exactly the stones
\* of the opponent groups adjacent to the placed stone that have no liberty
\* once it is placed; every other cell keeps its stone, no stone of the
\* placing colour is removed, and each removed stone is counted once.
C27_RemovesExactlyDeadAdjacentGroups ==
    [][Accepted("place_stone") =>
          /\ Cardinality(Filled(board, board')) = 1
          /\ \A p \in Filled(board, board') :
                 \E dead \in {DeadAround([board EXCEPT !.grid[p[2]][p[1]] = At(board', p)], p)} :
                     /\ Removed(board, board') = dead
                     /\ \A q \in Removed(board, board') : At(board, q) # At(board', p)
                     /\ \A q \in Cells(board) \ (dead \cup {p}) : At(board', q) = At(board, q)
                     /\ CaptureSum(board') = CaptureSum(board) + Cardinality(dead)]_vars

\* The last placement was accepted and removed a group of three stones that
\* touched the placed stone on two sides: the placed stone stands alone on a
\* board of size 2.
C27_Witness ==
    /\ last = [op |-> "place_stone", result |-> Ok]
    /\ board.size = 2
    /\ CaptureSum(board) = 3
    /\ Cardinality({p \in Cells(board) : At(board, p) # Empty}) = 1

\* C28: no place_stone call, accepted or rejected, lowers a capture count,
\* and each call raises the sum of the two counts by the number of cells it
\* turned from a stone to Empty (none when it is rejected).
C28_CaptureCountsGrowByRemoved ==
    [][Called("place_stone") =>
          /\ board'.captured[0] >= board.captured[0]
          /\ board'.captured[1] >= board.captured[1]
          /\ CaptureSum(board') = CaptureSum(board) + Cardinality(Removed(board, board'))
          /\ Rejected("place_stone") => Removed(board, board') = {}]_vars

\* A call was rejected after a capture, with the counts standing.
C28_Witness ==
    /\ last.op = "place_stone"
    /\ last.result # Ok
    /\ CaptureSum(board) > 0

\* The row string is a decimal number outside 1..size.
RowOutside(row_str, size) ==
    /\ row_str # <<>>
    /\ \A k \in 1..Len(row_str) : row_str[k] \in 48..57
    /\ ParseDigits(row_str, 1, 0)[1] \notin 1..size

\* C30: format_move never writes the column letter I, and parse_gtp_move
\* gives back (x, y) from format_move(x, y) for every board size up to 25
\* that holds (x, y); parse_gtp_move returns None, and does not panic, for
\* a string whose first char is the letter I, whose first char is no letter
\* A..Z (in either case), or whose row is a number outside 1..size.
C30_CoordinateTextRoundTrips ==
    /\ last.op = "format_move" =>
           /\ last.result[1] # 73
           /\ parse_gtp_move(last.result, board.size) = {Returned(Some(last.arg))}
    /\ last.op = "parse_gtp_move" =>
           ((/\ last.arg # <<>>
             /\ \/ to_ascii_uppercase(last.arg[1]) = 73
                \/ to_ascii_uppercase(last.arg[1]) \notin 65..90
                \/ RowOutside(Tail(last.arg), board.size))
            => last.result = Returned(None))

\* The lines of a string: its parts between line feeds (10), from char k on
\* with the line read so far.
RECURSIVE LinesFrom(_, _, _)
LinesFrom(str, k, line) ==
    IF k > Len(str) THEN {line}
    ELSE IF str[k] = 10 THEN {line} \cup LinesFrom(str, k + 1, <<>>)
    ELSE LinesFrom(str, k + 1, Append(line, str[k]))

\* The colour word of a stone.
ColorWord(stone) == IF stone = Black THEN "black" ELSE "white"

\* C29: for a play of a vertex V of the board in a game in progress, play
\* is accepted exactly when is_legal answers 1 for V and the stone play
\* places; after an accepted play list_stones for that stone has the line V
\* and showboard has the stone's char in V's column of V's row.
C29_VertexMappedConsistently ==
    [][(/\ last'.op = "play"
        /\ status = InProgress
        /\ last'.result # Failure("invalid color")) =>
          \A parsed \in parse_gtp_move(last'.arg, board.size) :
              (~parsed.panic /\ parsed.value # None) =>
                  /\ (last'.result = Success) <=>
                         (is_legal(Game, ColorWord(CurrentStone(Game)), last'.arg)
                              = {[panic |-> FALSE, response |-> <<"1">>]})
                  /\ (last'.result = Success) =>
                         /\ last'.arg
                                \in LinesFrom(list_stones(board', ColorWord(CurrentStone(Game))),
                                              1, <<>>)
                         /\ showboard(board')[parsed.value[1][2] * (2 * board.size + 1)
                                                  + 2 * parsed.value[1][1] + 1]
                                = StoneChar(CurrentStone(Game))]_vars

\* C31: on the board after any place_stone calls, accepted or rejected, the
\* group of every stone has a liberty, in find_group's count and in the
\* count of the Empty cells next to the stone's component.
C31_NoGroupWithoutLiberty ==
    \A c \in Cells(board) :
        At(board, c) # Empty =>
            /\ find_group(board, c[1], c[2])[1].liberties >= 1
            /\ LibertiesOf(board, Component(board, c)) # {}

\* After a capture, a group of two or more stones stands with one liberty.
C31_Witness ==
    /\ CaptureSum(board) > 0
    /\ \E c \in Cells(board) :
           /\ At(board, c) # Empty
           /\ Cardinality(Component(board, c)) >= 2
           /\ Cardinality(LibertiesOf(board, Component(board, c))) = 1

\* C32: in every state of the game the captured_stones pair is the pair of
\* capture counts of the board, and so it is in every snapshot of the
\* history.
C32_CapturedStonesMirrorBoard ==
    /\ \A i \in 0..1 : captured_stones[i] = get_captured(board)[i]
    /\ \A k \in 1..Len(history) :
           \A i \in 0..1 :
               history[k].captured_stones[i] = get_captured(history[k].board)[i]

\* A capture has been made, and the last snapshot of the history was taken
\* with other counts than the game has now.
C32_Witness ==
    /\ captured_stones[0] + captured_stones[1] > 0
    /\ history # <<>>
    /\ history[Len(history)].captured_stones # captured_stones

\* C33: the pass count is 0, 1 or 2, and the status is Ended exactly when
\* the pass count is 2, undo_move included, which restores neither.
C33_EndedIffTwoPasses ==
    /\ pass_count \in 0..2
    /\ status = Ended <=> pass_count = 2

\* A move was undone after the game had ended by two passes.
C33_Witness ==
    /\ status = Ended
    /\ last = [op |-> "undo_move", result |-> "Some"]

\* The part of C34 that holds in a state.
WinnerFitsStatus ==
    /\ status = InProgress => winner = None
    /\ status = Resigned => winner \in {Some(Black), Some(White)}

\* C34: the winner is unset while the game is in progress and is Black or
\* White when a player has resigned; once the game is over no operation
\* changes the winner.
C34_WinnerSetOnceAtEnd ==
    /\ []WinnerFitsStatus
    /\ [][status # InProgress => winner' = winner]_vars

\* A move was undone after a resignation, and the winner stands.
C34_Witness ==
    /\ status = Resigned
    /\ winner # None
    /\ last = [op |-> "undo_move", result |-> "Some"]

\* C35: once the game is over (Ended or Resigned) no operation, undo_move
\* included, changes the board, the current player or the captured counts.
C35_FinalPositionStays ==
    [][status # InProgress =>
          UNCHANGED <<board, current_player, captured_stones>>]_vars

\* C36: the stone an accepted play of a vertex places has the colour its
\* colour word names, for each colour word the step is a play with, and the
\* stone genmove places has the colour its colour word names, whichever
\* player is to move.
C36_ColourWordSetsStone ==
    [][\A color \in {"black", "white"} :
          /\ (/\ last'.op = "play"
              /\ last'.result = Success
              /\ to_lowercase(last'.arg) # PassString) =>
                 \A outcome \in play(Game, color, last'.arg) :
                     (~outcome.panic /\ outcome.game.board = board') =>
                         /\ Filled(board, board') # {}
                         /\ \A p \in Filled(board, board') :
                                At(board', p) = ParseColor(color)[1]
          /\ (last'.op = "genmove" /\ last'.arg = color) =>
                 \A p \in Filled(board, board') :
                     At(board', p) = ParseColor(color)[1]]_vars

====
